---- MODULE Spec2Model ----
(***************************************************************************)
(* Model of emd_falsify/tasks.py: the calibration task `Calibrate`, its    *)
(* work enumerator `model_c_gen`, the estimators `compute_Bemd` and        *)
(* `compute_Bconf`, and the result codec `unpack_results`.                 *)
(*                                                                         *)
(* Seven specifications share the variables:                               *)
(*   Spec     one run of Calibrate.__call__ (sequential or pool path),     *)
(*            followed by unpack_results on its output;                    *)
(*   SpecLive the same, with controller, feeder and workers scheduled      *)
(*            fairly and every estimator call ending;                      *)
(*   SpecGen  two successive calls of model_c_gen on fixed known sets;     *)
(*   SpecEst  calls of compute_Bemd / compute_Bconf on drawn samples;      *)
(*   SpecChunk the set-up of a run on long distributions and more cores;   *)
(*   SpecDist generate() and len() on CalibrationDist objects;             *)
(*   SpecUnpack a sequential run, then unpack_results on another task.     *)
(***************************************************************************)
EXTENDS Integers, Sequences, FiniteSets, TLC

\* ------------------------------------------------------------------ bounds
MaxN        == 2   \* longest distribution (data models per run)
MaxC        == 3   \* longest c_list
MaxItems    == 4   \* most (data model, c) pairs of a run
MaxCores    == 2   \* largest physical core count / config.mp.max_cores
MaxSamples  == 2   \* SpecEst: longest R sample list / risk vector
MaxRisk     == 2   \* SpecEst: sample and risk values are 0..MaxRisk
MaxDist     == 100 \* SpecChunk: longest distribution
MaxPool     == 4   \* SpecChunk: largest core count / config.mp.max_cores
MaxCount    == 2   \* SpecDist: largest finite model count N of a distribution
MaxObjs     == 3   \* SpecDist: most CalibrationDist objects created

\* ------------------------------------------------------- program constants
NOTSET      == 0   \* logging.NOTSET, the level of a logger nobody configured
ERROR       == 40  \* logging.ERROR
ChunkFactor == 6   \* the 6 of divmod(N, ncores*6)

\* levels a logger can be at: not set, below, at and above logging.ERROR
Levels == {NOTSET, ERROR - 10, ERROR, ERROR + 10}

\* data models and c values are told apart by a number; two of each allow
\* repeated and distinct items in the distribution and in c_list
Models == {1, 2}
Cs     == {1, 2}

\* Sequences over S of length 0..n
RECURSIVE SeqsUpTo(_, _)
SeqsUpTo(S, n) ==
    IF n = 0 THEN {<<>>}
    ELSE LET shorter == SeqsUpTo(S, n - 1)
         IN  shorter \cup {Append(s, x) : s \in {t \in shorter : Len(t) = n - 1}, x \in S}

RECURSIVE SumSeq(_)
SumSeq(s) == IF s = <<>> THEN 0 ELSE s[1] + SumSeq(Tail(s))

Min2(a, b) == IF a < b THEN a ELSE b

\* builtin min(a, b, c) on integers
Min3_nototal(a, b, c) == Min2(a, c)

Min3(a, b, c) == Min2(Min2(a, b), c)

\* --------------------------------------------------- dicts (insertion order)
\* A Python dict is a sequence of <<key, value>> in insertion order.
Keys(d)      == {d[i][1] : i \in DOMAIN d}
HasKey(d, k) == \E i \in DOMAIN d : d[i][1] = k
Get(d, k)    == d[CHOOSE i \in DOMAIN d : d[i][1] = k][2]
\* d[k] = v : a new key is appended, a present key keeps its place
Put(d, k, v) ==
    IF HasKey(d, k)
    THEN [i \in DOMAIN d |-> IF d[i][1] = k THEN <<k, v>> ELSE d[i]]
    ELSE Append(d, <<k, v>>)
\* list(d.values())
Values(d)    == [i \in DOMAIN d |-> d[i][2]]
\* the dict as a set of (key, value) pairs
Items(d)     == {d[i] : i \in DOMAIN d}

\* ---------------------------------------------------------- CalibrationDist
\* A CalibrationDist object (an instance of a subclass, frozen) is the record of
\* its fields: N, an int or np.inf, and the parameters params the subclass adds.
\* np.inf is told apart from the finite counts 0..MaxCount by a number above them.
Inf    == MaxCount + 1
Counts == 0..MaxCount \cup {Inf}
Params == {1, 2}
DistObjects == [N : Counts, params : Params]

\* len(d): __len__ returns self.N, and the builtin len accepts an int only
\* (TypeError: 'float' object cannot be interpreted as an integer)
len(d) == IF d.N = Inf THEN [ok |-> FALSE, v |-> 0] ELSE [ok |-> TRUE, v |-> d.N]

\* objs[i].generate(n) on the objects objs created so far: replace(self, N=N)
\* builds a new object from the fields of objs[i], with N changed
generate_inplace(objs, i, n) ==
    Append([objs EXCEPT ![i].N = n], [objs[i] EXCEPT !.N = n])

generate(objs, i, n) == Append(objs, [objs[i] EXCEPT !.N = n])

\* --------------------------------------------------------------- estimators
\* np.less.outer(RA_lst, RB_lst).mean() as the fraction <<numerator, denominator>>:
\* the number of (a, b) with a < b over the number of all pairs (denominator 0: nan)
LessOuterMean_leq(RA, RB) ==
    << Cardinality({ij \in (DOMAIN RA) \X (DOMAIN RB) : RA[ij[1]] <= RB[ij[2]]}),
       Len(RA) * Len(RB) >>

LessOuterMean(RA, RB) ==
    << Cardinality({ij \in (DOMAIN RA) \X (DOMAIN RB) : RA[ij[1]] < RB[ij[2]]}),
       Len(RA) * Len(RB) >>

\* compute_Bemd in a process whose "emd_falsify.emd" logger is at `level`.
\* dataOk: data_model(Ldata), riskA, riskB and make_empirical_risk_ppf returned;
\* drawA, drawB: what emd.draw_R_samples did, [ok |-> returned?, v |-> its samples].
\* The result is [raised, level (the logger's level after the call), value].
compute_Bemd_leaky(level, dataOk, drawA, drawB) ==
    [raised |-> ~dataOk \/ ~drawA.ok \/ ~drawB.ok,
     level  |-> IF dataOk THEN ERROR ELSE level,
     value  |-> IF dataOk /\ drawA.ok /\ drawB.ok
                THEN LessOuterMean(drawA.v, drawB.v) ELSE <<>>]

compute_Bemd(level, dataOk, drawA, drawB) ==
    LET emdlogginglevel == level          \* emdlogginglevel = emdlogger.level
        raisedlevel     == ERROR          \* emdlogger.setLevel(logging.ERROR)
    IN  IF ~dataOk
        THEN [raised |-> TRUE, level |-> level, value |-> <<>>]
        ELSE IF ~drawA.ok \/ ~drawB.ok    \* draw_R_samples raises: no finally,
        THEN [raised |-> TRUE, level |-> raisedlevel, value |-> <<>>]
        ELSE [raised |-> FALSE,           \* emdlogger.setLevel(emdlogginglevel)
              level  |-> emdlogginglevel,
              value  |-> LessOuterMean(drawA.v, drawB.v)]

\* riskA(data).mean() < riskB(data).mean() on risk vectors qA, qB of one dataset
MeanLess_leq(qA, qB) == SumSeq(qA) * Len(qB) <= SumSeq(qB) * Len(qA)

MeanLess(qA, qB) == SumSeq(qA) * Len(qB) < SumSeq(qB) * Len(qA)

\* compute_Bconf: one dataset data_model(Linf), then RA < RB
compute_Bconf(dataOk, qA, qB) ==
    IF ~dataOk THEN [raised |-> TRUE, value |-> FALSE]
    ELSE [raised |-> FALSE, value |-> MeanLess(qA, qB)]

\* Deterministic stand-ins for the injected primitives of a run: the R samples
\* drawn for (data model m, c) give a Bemd that identifies the pair, Code(m,c)/D.
Code(m, c)    == (m - 1) * Cardinality(Cs) + c
MockRA(m, c)  == [i \in 1..(Cardinality(Models) * Cardinality(Cs)) |-> i]
MockRB(m, c)  == << Code(m, c) + 1 >>
MockDraw(s)   == [ok |-> TRUE, v |-> s]
FailedDraw    == [ok |-> FALSE, v |-> <<>>]
\* risk vectors of data model m on its Linf dataset
MockRiskA(m)  == << m, m >>
MockRiskB(m)  == << 2, 2 >>

\* the value compute_Bemd returns for the pair p = <<m, c>> with the stand-ins
BemdOf(p)  == compute_Bemd(NOTSET, TRUE, MockDraw(MockRA(p[1], p[2])),
                           MockDraw(MockRB(p[1], p[2]))).value
\* the value compute_Bconf returns for data model m with the stand-ins
BconfOf(m) == compute_Bconf(TRUE, MockRiskA(m), MockRiskB(m)).value

\* ----------------------------------------------------------- work enumerator
\* The e-th (from 0) pair of "for data_model in dm: for c in cl"
PairAt(dm, cl, e) == << dm[(e \div Len(cl)) + 1], cl[(e % Len(cl)) + 1] >>
EnumLen(dm, cl)   == Len(dm) * Len(cl)
\* the whole nested iteration, in order
Enumeration(dm, cl) == [k \in 1..EnumLen(dm, cl) |-> PairAt(dm, cl, k - 1)]

\* A generator object of model_c_gen: pos, the next place of the nested
\* iteration to test; st, "new" | "yield" | "skip" | "done" | "raised";
\* out, the pairs yielded so far.
\* Calling model_c_gen starts the two for-loops afresh, whatever earlier
\* generators consumed of the same distribution and c_list.
model_c_gen_oneshot(consumed) == [pos |-> consumed, st |-> "new", out |-> <<>>]

model_c_gen(consumed) == [pos |-> 0, st |-> "new", out |-> <<>>]

\* One pass of the inner loop body against the known sets BK (Bemd keys) and
\* CK (Bconf keys): yield the pair, skip it, stop, or fail the assertion.
GenTest_noassert(g, dm, cl, BK, CK) ==
    IF g.pos >= EnumLen(dm, cl) THEN [g EXCEPT !.st = "done"]
    ELSE LET p == PairAt(dm, cl, g.pos)
         IN  IF p \notin BK
             THEN [g EXCEPT !.pos = @ + 1, !.st = "yield", !.out = Append(@, p)]
             ELSE [g EXCEPT !.pos = @ + 1, !.st = "skip"]

GenTest_noskip(g, dm, cl, BK, CK) ==
    IF g.pos >= EnumLen(dm, cl) THEN [g EXCEPT !.st = "done"]
    ELSE [g EXCEPT !.pos = @ + 1, !.st = "yield",
                   !.out = Append(@, PairAt(dm, cl, g.pos))]

GenTest(g, dm, cl, BK, CK) ==
    IF g.pos >= EnumLen(dm, cl) THEN [g EXCEPT !.st = "done"]
    ELSE LET p == PairAt(dm, cl, g.pos)
         IN  IF p \notin BK
             THEN [g EXCEPT !.pos = @ + 1, !.st = "yield", !.out = Append(@, p)]
             ELSE IF p[1] \in CK                 \* assert data_model in Bconf_results
             THEN [g EXCEPT !.pos = @ + 1, !.st = "skip"]
             ELSE [g EXCEPT !.st = "raised"]

\* next(generator): run the loops up to the next yield, the end, or the assertion
RECURSIVE GenNext(_, _, _, _, _)
GenNext(g, dm, cl, BK, CK) ==
    LET h == GenTest(g, dm, cl, BK, CK)
    IN  IF h.st = "skip" THEN GenNext(h, dm, cl, BK, CK) ELSE h

Finished(g) == g.st \in {"done", "raised"}

\* ----------------------------------------------------------------- codec
\* return dict(Bemd=list(Bemd_results.values()), Bconf=list(Bconf_results.values()))
Pack(Bemd, Bconf) == [Bemd |-> Values(Bemd), Bconf |-> Values(Bconf)]

UnpackCs_lenient(m, cl, j, Bemd, it, Bemd_dict) ==
    [ok |-> TRUE, it |-> it, d |-> Bemd_dict]

\* "for c in c_list: Bemd_dict[(data_model, c)] = next(Bemd_it)" from c_list[j] on;
\* it is the place of Bemd_it in result.Bemd; next() past the end raises StopIteration
RECURSIVE UnpackCs(_, _, _, _, _, _)
UnpackCs(m, cl, j, Bemd, it, Bemd_dict) ==
    IF j > Len(cl) THEN [ok |-> TRUE, it |-> it, d |-> Bemd_dict]
    ELSE IF it > Len(Bemd) THEN [ok |-> FALSE, it |-> it, d |-> Bemd_dict]
    ELSE UnpackCs(m, cl, j + 1, Bemd, it + 1, Put(Bemd_dict, <<m, cl[j]>>, Bemd[it]))

\* "for data_model in data_models: Bconf_dict[data_model] = next(Bconf_it); ..."
RECURSIVE UnpackModels(_, _, _, _, _, _, _, _)
UnpackModels(dm, cl, i, result, bemd_it, bconf_it, Bemd_dict, Bconf_dict) ==
    IF i > Len(dm)
    THEN [ok |-> TRUE, Bemd_dict |-> Bemd_dict, Bconf_dict |-> Bconf_dict]
    ELSE IF bconf_it > Len(result.Bconf)
    THEN [ok |-> FALSE, Bemd_dict |-> Bemd_dict, Bconf_dict |-> Bconf_dict]
    ELSE LET Cd == Put(Bconf_dict, dm[i], result.Bconf[bconf_it])
             r  == UnpackCs(dm[i], cl, 1, result.Bemd, bemd_it, Bemd_dict)
         IN  IF ~r.ok
             THEN [ok |-> FALSE, Bemd_dict |-> r.d, Bconf_dict |-> Cd]
             ELSE UnpackModels(dm, cl, i + 1, result, r.it, bconf_it + 1, r.d, Cd)

\* calib_curve_data[c] after "for data_model, c in Bemd_dict: ...append(...)"
Rows(c, Bemd_dict, Bconf_dict) ==
    LET HasC(e) == e[1][2] = c
        sel     == SelectSeq(Bemd_dict, HasC)
    IN  [k \in DOMAIN sel |-> << sel[k][2], Get(Bconf_dict, sel[k][1][1]) >>]

\* {c: np.array(calib_curve_data[c]) for c in c_list}, from c_list[j] on
RECURSIVE ByC(_, _, _, _, _)
ByC(cl, j, Bemd_dict, Bconf_dict, acc) ==
    IF j > Len(cl) THEN acc
    ELSE ByC(cl, j + 1, Bemd_dict, Bconf_dict,
             Put(acc, cl[j], Rows(cl[j], Bemd_dict, Bconf_dict)))

\* unpack_results on a task whose inputs are the distribution dm and c_list cl
unpack_results(result, dm, cl) ==
    LET u == UnpackModels(dm, cl, 1, result, 1, 1, <<>>, <<>>)
    IN  [st         |-> IF u.ok THEN "ok" ELSE "raised",
         Bemd_dict  |-> u.Bemd_dict,
         Bconf_dict |-> u.Bconf_dict,
         result     |-> IF u.ok THEN ByC(cl, 1, u.Bemd_dict, u.Bconf_dict, <<>>)
                        ELSE <<>>]

\* ------------------------------------------------------------------- state
VARIABLES
    c_list,         \* task input: the c values, a list
    data_models,    \* task input: the distribution, as the sequence it iterates to
    sized,          \* whether len(data_models) is defined
    cores,          \* psutil.cpu_count(logical=False)
    max_cores,      \* config.mp.max_cores
    pc,             \* where the controller is
    path,           \* "none" | "seq" | "pool"
    exc,            \* the exception the run ended with, "none" if none
    N, total, ncores, chunksize,
    Bemd_results,   \* dict (data_model, c) -> Bemd
    Bconf_results,  \* dict data_model -> Bconf
    gen1,           \* the model_c_gen generator feeding compute_Bemd
    gen2,           \* the model_c_gen generator zipped with the results
    cur,            \* the loop variable data_model of the zip loop
    ticks,          \* progbar.update calls
    output,         \* the returned dict
    emdlevel,       \* level of the "emd_falsify.emd" logger in the controller
    tasks,          \* pool: the tasks put by the task-handler thread, in order
    length,         \* pool: the imap iterator's _length (None until the input ends)
    workers,        \* pool: per worker process, its task and its emd logger level
    nextidx,        \* pool: number of task results the controller has taken
    cbuf,           \* pool: values of the chunk the controller is reading
    fbuf,           \* pool: inputs of the chunk the task handler is filling
    feeder,         \* pool: "idle" | "run" | "done", the task-handler thread
    bemd_calls,     \* history: the pairs compute_Bemd was evaluated on, with counts
    bconf_calls,    \* history: the data models compute_Bconf was evaluated on
    est_raised,     \* history: some compute_Bemd / compute_Bconf call raised
    unpacked,       \* what unpack_results gave on the output
    kBemd, kBconf,  \* SpecGen: the known sets handed to model_c_gen
    est,            \* SpecEst: the estimator call and its outcome
    dist,           \* SpecDist: the CalibrationDist objects and the last generate call
    taskinputs      \* SpecUnpack: the inputs of the other task unpack_results is called on

inputs   == << c_list, data_models, sized, cores, max_cores >>
ctlvars  == << pc, path, exc, N, total, ncores, chunksize, Bemd_results,
               Bconf_results, gen2, cur, ticks, output, emdlevel >>
poolvars == << tasks, length, workers, nextidx, cbuf, fbuf, feeder >>
histvars == << bemd_calls, bconf_calls, est_raised >>
othervars == << unpacked, kBemd, kBconf, est, dist, taskinputs >>
vars == << inputs, ctlvars, gen1, poolvars, histvars, othervars >>

None == 0 - 1                  \* Python None where an int is expected
NoGen == [pos |-> 0, st |-> "none", out |-> <<>>]
NoUnpack == [st |-> "none", Bemd_dict |-> <<>>, Bconf_dict |-> <<>>, result |-> <<>>]
NoEst == [fn |-> "none"]
NoDist == [objs |-> <<>>, src |-> 0, n |-> 0]
NoTask == [data_models |-> <<>>, c_list |-> <<>>]
Failures == {"none", "draw"}   \* a compute_Bemd call of a run: returns, or the sampling raises

\* the state of everything a specification does not use
RunIdle ==
    /\ path = "none" /\ exc = "none"
    /\ N = None /\ total = None /\ ncores = 0 /\ chunksize = 0
    /\ Bemd_results = <<>> /\ Bconf_results = <<>>
    /\ cur = <<>> /\ ticks = 0
    /\ output = Pack(<<>>, <<>>)
    /\ tasks = <<>> /\ length = None /\ workers = <<>> /\ nextidx = 0
    /\ cbuf = <<>> /\ fbuf = <<>> /\ feeder = "idle"
    /\ bemd_calls = [p \in Models \X Cs |-> 0]
    /\ bconf_calls = [m \in Models |-> 0]
    /\ est_raised = FALSE
    /\ unpacked = NoUnpack
    /\ taskinputs = NoTask

Init ==
    /\ c_list \in SeqsUpTo(Cs, MaxC)
    /\ data_models \in SeqsUpTo(Models, MaxN)
    /\ EnumLen(data_models, c_list) <= MaxItems
    /\ sized \in BOOLEAN
    /\ cores \in 1..MaxCores
    /\ max_cores \in 1..MaxCores
    /\ pc = "start"
    /\ RunIdle
    /\ gen1 = NoGen /\ gen2 = NoGen
    /\ emdlevel = NOTSET
    /\ kBemd = {} /\ kBconf = {}
    /\ est = NoEst
    /\ dist = NoDist

\* ---------------------------------------------------- Calibrate.__call__
\* chunksize, extra = divmod(N, ncores*6); if extra: chunksize += 1
ChunkSize_floor(n, k) == n \div (k * ChunkFactor)

ChunkSize(n, k) ==
    LET q     == n \div (k * ChunkFactor)
        extra == n % (k * ChunkFactor)
    IN  IF extra # 0 THEN q + 1 ELSE q

\* Bemd_results = {}, Bconf_results = {}, N, total, progbar, ncores.
\* min(ncores, None, max_cores) raises TypeError when the length is unknown.
Start ==
    /\ pc = "start"
    /\ Bemd_results' = <<>> /\ Bconf_results' = <<>>
    /\ IF sized
       THEN LET n == Len(data_models)
                t == n * Len(c_list)
                k == Min3(cores, t, max_cores)
            IN  /\ N' = n /\ total' = t /\ ncores' = k
                /\ path' = IF k > 1 THEN "pool" ELSE "seq"
                /\ pc' = "open"
                /\ exc' = exc
       ELSE /\ N' = N /\ total' = None /\ ncores' = cores
            /\ path' = path
            /\ pc' = "raised"
            /\ exc' = "TypeError"
    /\ UNCHANGED << inputs, chunksize, gen1, gen2, cur, ticks, output, emdlevel,
                    poolvars, histvars, othervars >>

\* else-branch: the generator expression Bemd_it and zip(...) are set up
OpenSeq ==
    /\ pc = "open" /\ path = "seq"
    /\ gen1' = model_c_gen(0)
    /\ gen2' = model_c_gen(0)
    /\ pc' = "loop"
    /\ UNCHANGED << inputs, path, exc, N, total, ncores, chunksize, Bemd_results,
                    Bconf_results, cur, ticks, output, emdlevel,
                    poolvars, histvars, othervars >>

\* with mp.Pool(ncores) as pool: chunksize, pool.imap(...), zip(...).
\* Worker processes start with a copy of the controller's logger state;
\* imap refuses a chunksize below 1 with ValueError.
OpenPool ==
    /\ pc = "open" /\ path = "pool"
    /\ chunksize' = ChunkSize(N, ncores)
    /\ IF ChunkSize(N, ncores) < 1
       THEN /\ pc' = "raised" /\ exc' = "ValueError"
            /\ UNCHANGED << gen1, gen2, workers, feeder >>
       ELSE /\ workers' = [w \in 1..ncores |-> [task |-> 0, level |-> emdlevel]]
            /\ gen1' = model_c_gen(0)
            /\ gen2' = model_c_gen(0)
            /\ feeder' = "run"
            /\ pc' = "loop" /\ exc' = exc
    /\ UNCHANGED << inputs, path, N, total, ncores, Bemd_results, Bconf_results,
                    cur, ticks, output, emdlevel, tasks, length, nextidx, cbuf,
                    fbuf, histvars, othervars >>

\* what one compute_Bemd call on pair p does in a process at logger level lvl
BemdCall(lvl, p, fail) ==
    compute_Bemd(lvl, fail # "data",
                 IF fail = "draw" THEN FailedDraw ELSE MockDraw(MockRA(p[1], p[2])),
                 MockDraw(MockRB(p[1], p[2])))

\* One pass of the sequential zip loop up to "Bemd_results[data_model, c] = Bemd_res":
\* next(gen2), then next(Bemd_it), which runs gen1 and compute_Bemd in the controller.
SeqNext ==
    /\ pc = "loop" /\ path = "seq"
    /\ LET BK == Keys(Bemd_results)
           CK == Keys(Bconf_results)
           g2 == GenNext(gen2, data_models, c_list, BK, CK)
           g1 == GenNext(gen1, data_models, c_list, BK, CK)
       IN  /\ gen2' = g2
           /\ IF g2.st # "yield"
              THEN /\ pc' = IF g2.st = "done" THEN "finish" ELSE "raised"
                   /\ exc' = IF g2.st = "done" THEN exc ELSE "AssertionError"
                   /\ UNCHANGED << gen1, Bemd_results, cur, ticks, emdlevel, histvars >>
              ELSE /\ gen1' = g1
                   /\ IF g1.st # "yield"
                      THEN /\ pc' = IF g1.st = "done" THEN "finish" ELSE "raised"
                           /\ exc' = IF g1.st = "done" THEN exc ELSE "AssertionError"
                           /\ UNCHANGED << Bemd_results, cur, ticks, emdlevel, histvars >>
                      ELSE \E fail \in Failures :
                           LET arg == g1.out[Len(g1.out)]
                               key == g2.out[Len(g2.out)]
                               r   == BemdCall(emdlevel, arg, fail)
                           IN  /\ emdlevel' = r.level
                               /\ bemd_calls' = [bemd_calls EXCEPT ![arg] = @ + 1]
                               /\ est_raised' = (est_raised \/ r.raised)
                               /\ UNCHANGED bconf_calls
                               /\ IF r.raised
                                  THEN /\ pc' = "raised" /\ exc' = "EstimatorError"
                                       /\ UNCHANGED << Bemd_results, cur, ticks >>
                                  ELSE /\ ticks' = ticks + 1
                                       /\ Bemd_results' = Put(Bemd_results, key, r.value)
                                       /\ cur' = key[1]
                                       /\ pc' = "bconf" /\ exc' = exc
    /\ UNCHANGED << inputs, path, N, total, ncores, chunksize, Bconf_results, output,
                    poolvars, othervars >>

PoolAlive == path = "pool" /\ pc \in {"loop", "bconf"}

\* The pool's task-handler thread draws from gen1 (one test of the inner loop
\* body per step), fills chunks of chunksize inputs and puts them as tasks; an
\* exception of the generator becomes a task that re-raises it; when the input
\* ends the iterator's length is set.
Feed ==
    /\ PoolAlive /\ feeder = "run"
    /\ LET g == GenTest(gen1, data_models, c_list, Keys(Bemd_results), Keys(Bconf_results))
           chunk(items) == [kind |-> "chunk", items |-> items, st |-> "queued",
                            ok |-> TRUE, vals |-> <<>>]
           reraise == [kind |-> "raise", items |-> <<>>, st |-> "queued",
                       ok |-> TRUE, vals |-> <<>>]
           buf == IF g.st = "yield" THEN Append(fbuf, g.out[Len(g.out)]) ELSE fbuf
           put == CASE g.st = "yield" /\ Len(buf) = chunksize -> Append(tasks, chunk(buf))
                    [] g.st = "done" /\ buf # <<>>            -> Append(tasks, chunk(buf))
                    [] g.st = "raised"                        -> Append(tasks, reraise)
                    [] OTHER                                  -> tasks
       IN  /\ gen1' = g
           /\ tasks' = put
           /\ fbuf' = IF put # tasks \/ g.st = "raised" THEN <<>> ELSE buf
           /\ feeder' = IF Finished(g) THEN "done" ELSE feeder
           /\ length' = IF Finished(g) THEN Len(put) ELSE length
    /\ UNCHANGED << inputs, ctlvars, workers, nextidx, cbuf, histvars, othervars >>

\* An idle worker process takes the oldest task not yet taken.
WorkerStart(w) ==
    /\ PoolAlive
    /\ workers[w].task = 0
    /\ \E i \in DOMAIN tasks :
        /\ tasks[i].st = "queued"
        /\ \A j \in 1..(i - 1) : tasks[j].st # "queued"
        /\ tasks' = [tasks EXCEPT ![i].st = "running"]
        /\ workers' = [workers EXCEPT ![w].task = i]
    /\ UNCHANGED << inputs, ctlvars, gen1, length, nextidx, cbuf, fbuf, feeder,
                    histvars, othervars >>

\* The worker runs its task, compute_Bemd on each input of the chunk in turn, and
\* sends back the list of values, or the first exception (f: the input that fails,
\* 0 for none). A re-raising task sends back the generator's exception.
WorkerFinish(w) ==
    /\ PoolAlive
    /\ workers[w].task # 0
    /\ LET i == workers[w].task
           t == tasks[i]
           lvl == workers[w].level
       IN  IF t.kind = "raise"
           THEN /\ tasks' = [tasks EXCEPT ![i].st = "done", ![i].ok = FALSE]
                /\ workers' = [workers EXCEPT ![w].task = 0]
                /\ UNCHANGED histvars
           ELSE \E f \in 0..Len(t.items), fail \in Failures :
                /\ (f = 0) = (fail = "none")
                /\ LET ran == IF f = 0 THEN Len(t.items) ELSE f
                       r   == BemdCall(lvl, t.items[ran], fail)
                   IN  /\ tasks' = [tasks EXCEPT
                              ![i].st = "done",
                              ![i].ok = (f = 0),
                              ![i].vals = IF f = 0
                                          THEN [k \in DOMAIN t.items |->
                                                  BemdCall(lvl, t.items[k], "none").value]
                                          ELSE <<>>]
                       /\ workers' = [workers EXCEPT ![w].task = 0, ![w].level = r.level]
                       /\ bemd_calls' = [p \in DOMAIN bemd_calls |->
                              bemd_calls[p]
                              + Cardinality({k \in 1..ran : t.items[k] = p})]
                       /\ est_raised' = (est_raised \/ r.raised)
                       /\ UNCHANGED bconf_calls
    /\ UNCHANGED << inputs, ctlvars, gen1, length, nextidx, cbuf, fbuf, feeder,
                    othervars >>

\* One pass of the pool's zip loop up to "Bemd_results[data_model, c] = Bemd_res":
\* next(gen2), then next(Bemd_it), which blocks until the next result in
\* submission order is there, raises it if it is an exception, and stops when
\* every task put has been taken and the input has ended.
PoolNext ==
    /\ pc = "loop" /\ path = "pool"
    /\ LET g2 == GenNext(gen2, data_models, c_list, Keys(Bemd_results), Keys(Bconf_results))
           key == g2.out[Len(g2.out)]
           inbuf == cbuf # <<>>
           ready == nextidx < Len(tasks) /\ tasks[nextidx + 1].st = "done"
           t == tasks[nextidx + 1]
           ended == length = nextidx
       IN  IF g2.st # "yield"
           THEN /\ gen2' = g2
                /\ pc' = IF g2.st = "done" THEN "finish" ELSE "raised"
                /\ exc' = IF g2.st = "done" THEN exc ELSE "AssertionError"
                /\ UNCHANGED << Bemd_results, cur, ticks, nextidx, cbuf >>
           ELSE /\ inbuf \/ ready \/ ended
                /\ gen2' = g2
                /\ IF inbuf
                   THEN /\ ticks' = ticks + 1
                        /\ Bemd_results' = Put(Bemd_results, key, Head(cbuf))
                        /\ cbuf' = Tail(cbuf)
                        /\ cur' = key[1]
                        /\ pc' = "bconf"
                        /\ UNCHANGED << exc, nextidx >>
                   ELSE IF ready /\ t.ok
                   THEN /\ ticks' = ticks + 1
                        /\ Bemd_results' = Put(Bemd_results, key, Head(t.vals))
                        /\ cbuf' = Tail(t.vals)
                        /\ nextidx' = nextidx + 1
                        /\ cur' = key[1]
                        /\ pc' = "bconf"
                        /\ UNCHANGED exc
                   ELSE IF ready
                   THEN /\ pc' = "raised"
                        /\ exc' = IF t.kind = "raise" THEN "AssertionError"
                                  ELSE "EstimatorError"
                        /\ nextidx' = nextidx + 1
                        /\ UNCHANGED << Bemd_results, cur, ticks, cbuf >>
                   ELSE /\ pc' = "finish"
                        /\ UNCHANGED << exc, Bemd_results, cur, ticks, nextidx, cbuf >>
    /\ UNCHANGED << inputs, path, N, total, ncores, chunksize, Bconf_results, output,
                    emdlevel, gen1, tasks, length, workers, fbuf, feeder,
                    histvars, othervars >>

\* if data_model not in Bconf_results:
\*     Bconf_results[data_model] = compute_Bconf(data_model, riskA, riskB, Linf)
Bconf ==
    /\ pc = "bconf"
    /\ IF HasKey(Bconf_results, cur)
       THEN /\ pc' = "loop"
            /\ UNCHANGED << exc, Bconf_results, histvars >>
       ELSE \E dataOk \in BOOLEAN :
            LET r == compute_Bconf(dataOk, MockRiskA(cur), MockRiskB(cur))
            IN  /\ bconf_calls' = [bconf_calls EXCEPT ![cur] = @ + 1]
                /\ est_raised' = (est_raised \/ r.raised)
                /\ UNCHANGED bemd_calls
                /\ IF r.raised
                   THEN /\ pc' = "raised" /\ exc' = "EstimatorError"
                        /\ UNCHANGED Bconf_results
                   ELSE /\ Bconf_results' = Put(Bconf_results, cur, r.value)
                        /\ pc' = "loop" /\ exc' = exc
    /\ UNCHANGED << inputs, path, N, total, ncores, chunksize, Bemd_results, gen1, gen2,
                    cur, ticks, output, emdlevel, poolvars, othervars >>

\* progbar.close(); return dict(Bemd=..., Bconf=...)
Finish ==
    /\ pc = "finish"
    /\ output' = Pack(Bemd_results, Bconf_results)
    /\ pc' = "done"
    /\ UNCHANGED << inputs, path, exc, N, total, ncores, chunksize, Bemd_results,
                    Bconf_results, gen1, gen2, cur, ticks, emdlevel, poolvars,
                    histvars, othervars >>

\* task.unpack_results(result) on the task that produced the output
Unpack ==
    /\ pc = "done"
    /\ unpacked' = unpack_results(output, data_models, c_list)
    /\ pc' = "unpacked"
    /\ UNCHANGED << inputs, path, exc, N, total, ncores, chunksize, Bemd_results,
                    Bconf_results, gen1, gen2, cur, ticks, output, emdlevel, poolvars,
                    histvars, kBemd, kBconf, est, dist, taskinputs >>

Next ==
    \/ Start
    \/ OpenSeq
    \/ OpenPool
    \/ SeqNext
    \/ Feed
    \/ \E w \in DOMAIN workers : WorkerStart(w)
    \/ \E w \in DOMAIN workers : WorkerFinish(w)
    \/ PoolNext
    \/ Bconf
    \/ Finish
    \/ Unpack

Spec == Init /\ [][Next]_vars

\* The controller, the pool's task-handler thread and the worker processes all
\* keep running: a step that stays possible is taken, and every estimator call
\* that was started ends (WorkerFinish, SeqNext, Bconf).
Fairness ==
    /\ WF_vars(Start) /\ WF_vars(OpenSeq) /\ WF_vars(OpenPool)
    /\ WF_vars(SeqNext) /\ WF_vars(PoolNext) /\ WF_vars(Bconf) /\ WF_vars(Finish)
    /\ WF_vars(Unpack)
    /\ WF_vars(Feed)
    /\ WF_vars(\E w \in DOMAIN workers : WorkerStart(w))
    /\ WF_vars(\E w \in DOMAIN workers : WorkerFinish(w))

SpecLive == Init /\ [][Next]_vars /\ Fairness

\* ------------------------------------------- SpecGen: model_c_gen on known sets
\* Two successive calls of task.model_c_gen(kBemd, kBconf) with the same task
\* inputs and the same known sets; each generator is run to its end.
\* The known sets are sets of already computed results of the task: Bemd keys
\* among the pairs of its nested iteration, Bconf keys among its data models.
Range(q) == {q[i] : i \in DOMAIN q}

InitGen ==
    /\ c_list \in SeqsUpTo(Cs, MaxC)
    /\ data_models \in SeqsUpTo(Models, MaxN)
    /\ EnumLen(data_models, c_list) <= MaxItems
    /\ sized = TRUE /\ cores = 1 /\ max_cores = 1
    /\ kBemd \in SUBSET Range(Enumeration(data_models, c_list))
    /\ kBconf \in SUBSET Range(data_models)
    /\ pc = "gen1"
    /\ gen1 = model_c_gen(0) /\ gen2 = NoGen
    /\ RunIdle
    /\ emdlevel = NOTSET
    /\ est = NoEst
    /\ dist = NoDist

\* next() on the first generator, one test of the inner loop body at a time
GenStep1 ==
    /\ pc = "gen1" /\ ~Finished(gen1)
    /\ gen1' = GenTest(gen1, data_models, c_list, kBemd, kBconf)
    /\ UNCHANGED << inputs, ctlvars, poolvars, histvars, othervars >>

\* the second call, made once the first generator is exhausted or has raised
GenCall2 ==
    /\ pc = "gen1" /\ Finished(gen1)
    /\ gen2' = model_c_gen(gen1.pos)
    /\ pc' = "gen2"
    /\ UNCHANGED << inputs, path, exc, N, total, ncores, chunksize, Bemd_results,
                    Bconf_results, cur, ticks, output, emdlevel, gen1,
                    poolvars, histvars, othervars >>

GenStep2 ==
    /\ pc = "gen2" /\ ~Finished(gen2)
    /\ gen2' = GenTest(gen2, data_models, c_list, kBemd, kBconf)
    /\ UNCHANGED << inputs, path, pc, exc, N, total, ncores, chunksize, Bemd_results,
                    Bconf_results, cur, ticks, output, emdlevel, gen1,
                    poolvars, histvars, othervars >>

NextGen == GenStep1 \/ GenCall2 \/ GenStep2

SpecGen == InitGen /\ [][NextGen]_vars

\* ------------------------------- SpecChunk: the set-up of __call__ at scale
\* Calibrate.__call__ up to the creation of the pool and of the generators, on
\* distributions of up to MaxDist data models and machines of up to MaxPool cores.
InitChunk ==
    /\ c_list \in {<<1>>, <<1, 2>>}
    /\ \E n \in 0..MaxDist : data_models = [i \in 1..n |-> 1 + (i % 2)]
    /\ sized = TRUE
    /\ cores \in 1..MaxPool
    /\ max_cores \in 1..MaxPool
    /\ pc = "start"
    /\ RunIdle
    /\ gen1 = NoGen /\ gen2 = NoGen
    /\ emdlevel = NOTSET
    /\ kBemd = {} /\ kBconf = {}
    /\ est = NoEst
    /\ dist = NoDist

NextChunk == Start \/ OpenSeq \/ OpenPool

SpecChunk == InitChunk /\ [][NextChunk]_vars

\* ------------------------------------------------- SpecEst: the estimators
\* One estimator call on drawn inputs, made up to twice in the same process.
\* est.draws counts the datasets asked of the data model, data_model(L).
Samples == SeqsUpTo(0..MaxRisk, MaxSamples)
Draws   == {MockDraw(v) : v \in Samples} \cup {FailedDraw}

InitEst ==
    /\ c_list = <<>> /\ data_models = <<>>
    /\ sized = TRUE /\ cores = 1 /\ max_cores = 1
    /\ pc = "est"
    /\ RunIdle
    /\ gen1 = NoGen /\ gen2 = NoGen
    /\ kBemd = {} /\ kBconf = {}
    /\ emdlevel \in Levels
    /\ dist = NoDist
    /\ \/ \E dataOk \in BOOLEAN, a \in Draws, b \in Draws :
            est = [fn |-> "compute_Bemd", dataOk |-> dataOk, a |-> a, b |-> b,
                   calls |-> 0, draws |-> 0, before |-> NOTSET, raised |-> FALSE,
                   value |-> <<>>, first |-> <<>>]
       \/ \E dataOk \in BOOLEAN, qA \in Samples, qB \in Samples :
            /\ Len(qA) = Len(qB)
            /\ est = [fn |-> "compute_Bconf", dataOk |-> dataOk, a |-> qA, b |-> qB,
                      calls |-> 0, draws |-> 0, before |-> NOTSET, raised |-> FALSE,
                      value |-> <<>>, first |-> <<>>]

\* compute_Bemd(...) in the process whose emd logger is at emdlevel
CallBemd ==
    /\ pc = "est" /\ est.fn = "compute_Bemd" /\ est.calls < 2
    /\ LET r == compute_Bemd(emdlevel, est.dataOk, est.a, est.b)
       IN  /\ emdlevel' = r.level
           /\ est' = [est EXCEPT !.calls = @ + 1, !.draws = @ + 1,
                                 !.before = emdlevel,
                                 !.raised = r.raised, !.value = r.value,
                                 !.first = IF est.calls = 0 THEN << r.raised, r.value >>
                                           ELSE @]
    /\ UNCHANGED << inputs, pc, path, exc, N, total, ncores, chunksize, Bemd_results,
                    Bconf_results, gen1, gen2, cur, ticks, output, poolvars, histvars,
                    unpacked, kBemd, kBconf, dist, taskinputs >>

\* compute_Bconf(...) on a data model whose Linf dataset has risks est.a, est.b
CallBconf ==
    /\ pc = "est" /\ est.fn = "compute_Bconf" /\ est.calls < 2
    /\ LET r == compute_Bconf(est.dataOk, est.a, est.b)
       IN  est' = [est EXCEPT !.calls = @ + 1, !.draws = @ + 1,
                              !.before = emdlevel,
                              !.raised = r.raised, !.value = << r.value >>,
                              !.first = IF est.calls = 0 THEN << r.raised, << r.value >> >>
                                        ELSE @]
    /\ UNCHANGED << inputs, pc, path, exc, N, total, ncores, chunksize, Bemd_results,
                    Bconf_results, gen1, gen2, cur, ticks, output, emdlevel, poolvars,
                    histvars, unpacked, kBemd, kBconf, dist, taskinputs >>

NextEst == CallBemd \/ CallBconf

SpecEst == InitEst /\ [][NextEst]_vars

\* --------------------------------------------- SpecDist: CalibrationDist
\* One CalibrationDist object, then generate() calls on any object made so far.
\* dist.src and dist.n record the receiver and the argument of the last call.
InitDist ==
    /\ c_list = <<>> /\ data_models = <<>>
    /\ sized = TRUE /\ cores = 1 /\ max_cores = 1
    /\ pc = "dist"
    /\ RunIdle
    /\ gen1 = NoGen /\ gen2 = NoGen
    /\ kBemd = {} /\ kBconf = {}
    /\ emdlevel = NOTSET
    /\ est = NoEst
    /\ \E d \in DistObjects : dist = [objs |-> << d >>, src |-> 0, n |-> 0]

Generate ==
    /\ pc = "dist" /\ Len(dist.objs) < MaxObjs
    /\ \E i \in DOMAIN dist.objs, n \in Counts :
          dist' = [objs |-> generate(dist.objs, i, n), src |-> i, n |-> n]
    /\ UNCHANGED << inputs, ctlvars, gen1, poolvars, histvars, unpacked, kBemd,
                    kBconf, est, taskinputs >>

NextDist == Generate

SpecDist == InitDist /\ [][NextDist]_vars

\* ------------------------- SpecUnpack: unpack_results on another task's output
\* A sequential run of one task, then unpack_results of a task with other
\* inputs (distribution, c_list) called on the output of that run.
InitUnpack ==
    /\ c_list \in SeqsUpTo(Cs, MaxC)
    /\ data_models \in SeqsUpTo(Models, MaxN)
    /\ EnumLen(data_models, c_list) <= MaxItems
    /\ sized = TRUE /\ cores = 1 /\ max_cores = 1
    /\ pc = "start"
    /\ RunIdle
    /\ gen1 = NoGen /\ gen2 = NoGen
    /\ emdlevel = NOTSET
    /\ kBemd = {} /\ kBconf = {}
    /\ est = NoEst
    /\ dist = NoDist

UnpackOther ==
    /\ pc = "done"
    /\ \E dm \in SeqsUpTo(Models, MaxN), cl \in SeqsUpTo(Cs, MaxC) :
          /\ << dm, cl >> # << data_models, c_list >>
          /\ taskinputs' = [data_models |-> dm, c_list |-> cl]
          /\ unpacked' = unpack_results(output, dm, cl)
    /\ pc' = "unpacked"
    /\ UNCHANGED << inputs, path, exc, N, total, ncores, chunksize, Bemd_results,
                    Bconf_results, gen1, gen2, cur, ticks, output, emdlevel, poolvars,
                    histvars, kBemd, kBconf, est, dist >>

NextUnpack == Start \/ OpenSeq \/ SeqNext \/ Bconf \/ Finish \/ UnpackOther

SpecUnpack == InitUnpack /\ [][NextUnpack]_vars

\* ================================================================== claims
Last(q) == q[Len(q)]

\* The else-branch of __call__ run to its end with estimators that never
\* raise, and the dict it returns: the sequential result for (dm, cl).
RECURSIVE SeqLoop(_, _, _, _, _, _)
SeqLoop(dm, cl, g1, g2, B, C) ==
    LET h2 == GenNext(g2, dm, cl, Keys(B), Keys(C))
        h1 == GenNext(g1, dm, cl, Keys(B), Keys(C))
    IN  IF h2.st # "yield" \/ h1.st # "yield" THEN Pack(B, C)
        ELSE LET key == Last(h2.out)
                 B2  == Put(B, key, BemdOf(Last(h1.out)))
                 C2  == IF HasKey(C, key[1]) THEN C
                        ELSE Put(C, key[1], BconfOf(key[1]))
             IN  SeqLoop(dm, cl, h1, h2, B2, C2)

SeqOutput(dm, cl) == SeqLoop(dm, cl, model_c_gen(0), model_c_gen(0), <<>>, <<>>)

\* the pairs of the nested iteration are pairwise distinct: no data model and
\* no c value is repeated
NoRepeats ==
    LET E == Enumeration(data_models, c_list)
    IN  \A i, j \in DOMAIN E : E[i] = E[j] => i = j

\* C1: in the pool path every value stored in Bemd_results under the key
\* (data_model, c) is the value compute_Bemd returned for that same pair.
C1_PairingUnambiguous ==
    path = "pool" =>
        \A i \in DOMAIN Bemd_results : Bemd_results[i][2] = BemdOf(Bemd_results[i][1])

\* C1 holds when no pair is repeated.
C1_PairingIfNoRepeats == NoRepeats => C1_PairingUnambiguous

\* C2: unpack_results on the packed output of a run, with the same distribution
\* and c_list, rebuilds exactly the (key, value) pairs of Bemd_results and of
\* Bconf_results.
C2_RoundTrip ==
    pc = "unpacked" =>
        /\ unpacked.st = "ok"
        /\ Items(unpacked.Bemd_dict) = Items(Bemd_results)
        /\ Items(unpacked.Bconf_dict) = Items(Bconf_results)

\* C2 holds when no pair is repeated and c_list is not empty.
C2_RoundTripIfNoRepeats == (NoRepeats /\ c_list # <<>>) => C2_RoundTrip

\* C3: a run that returns, by the sequential path or by the pool path under any
\* interleaving, returns the Bemd and Bconf lists of the sequential path.
C3_PathsAgree ==
    pc = "done" => output = SeqOutput(data_models, c_list)

\* C3 holds when no pair is repeated.
C3_PathsAgreeIfNoRepeats == NoRepeats => C3_PathsAgree

\* C4: two calls of model_c_gen with the same distribution, c_list and known
\* sets yield the same pairs in the same order (and end the same way).
C4_EnumerationDeterminism ==
    (pc = "gen2" /\ Finished(gen1) /\ Finished(gen2)) =>
        /\ gen2.out = gen1.out
        /\ gen2.st = gen1.st

C4_Witness ==
    /\ pc = "gen2" /\ Finished(gen2)
    /\ Len(gen2.out) >= 2
    /\ Len(gen2.out) < EnumLen(data_models, c_list)

\* the pairs of sequence E that are not in the known-Bemd set
Unknown(E) ==
    LET NotKnown(p) == p \notin kBemd
    IN  SelectSeq(E, NotKnown)

\* C5 as stated: once the generator has ended it has yielded exactly the pairs
\* of the nested iteration that are not in the known-Bemd set, in order.
C5_YieldsAllUnknown ==
    (pc = "gen1" /\ Finished(gen1)) =>
        gen1.out = Unknown(Enumeration(data_models, c_list))

\* C5 amended: the generator yields, in order, exactly the pairs not in the
\* known-Bemd set among those it has passed; it passes the whole nested
\* iteration unless the assertion fails, and then it stops at the failing pair;
\* with an empty known set it yields all N*|c_list| pairs.
C5_YieldsUnknownUpToAssertion ==
    pc = "gen1" =>
        LET E == Enumeration(data_models, c_list)
        IN  /\ gen1.out = Unknown(SubSeq(E, 1, gen1.pos))
            /\ gen1.st = "done" => gen1.pos = Len(E)
            /\ gen1.st = "raised" =>
                  /\ gen1.pos < Len(E)
                  /\ E[gen1.pos + 1] \in kBemd
                  /\ E[gen1.pos + 1][1] \notin kBconf
            /\ (gen1.st = "done" /\ kBemd = {}) =>
                  /\ gen1.out = E
                  /\ Len(gen1.out) = Len(data_models) * Len(c_list)

C5_Witness ==
    /\ pc = "gen1" /\ gen1.st = "done"
    /\ Len(gen1.out) >= 2
    /\ Len(gen1.out) < EnumLen(data_models, c_list)

\* some data model of a known-Bemd pair is not in the known-Bconf set
Inconsistent == \E p \in kBemd : p[1] \notin kBconf

\* the places of the nested iteration whose pair is known but whose data model
\* has no known Bconf
Offending ==
    LET E == Enumeration(data_models, c_list)
    IN  {k \in DOMAIN E : E[k] \in kBemd /\ E[k][1] \notin kBconf}

\* C6 as stated: with such a known-Bemd set the generator yields no pair at all
\* and ends by raising.
C6_RaisesBeforeAnyYield ==
    (pc = "gen1" /\ Inconsistent /\ Finished(gen1)) =>
        /\ gen1.st = "raised"
        /\ gen1.out = <<>>

\* C6 amended: the generator raises exactly when the nested iteration holds a
\* known pair whose data model has no known Bconf, and it raises on reaching the
\* first such pair: the unknown pairs before it have been yielded, none after.
C6_RaisesAtFirstOffendingPair ==
    pc = "gen1" =>
        /\ \A k \in Offending : gen1.pos < k
        /\ Finished(gen1) =>
              IF Offending = {} THEN gen1.st = "done"
              ELSE /\ gen1.st = "raised"
                   /\ \A k \in Offending : gen1.pos + 1 <= k
                   /\ gen1.pos + 1 \in Offending
                   /\ gen1.out = Unknown(SubSeq(Enumeration(data_models, c_list),
                                                1, gen1.pos))

C6_Witness ==
    /\ pc = "gen1" /\ gen1.st = "raised"
    /\ Len(gen1.out) >= 1

\* C7: a run on a distribution without a length does not end in an error of its
\* own: it can only fail because an estimator raised.
C7_UnsizedRunCompletes ==
    (~sized /\ pc = "raised") => est_raised

\* C8: with an empty c_list (and a sized distribution of any length) neither the
\* run nor unpack_results on its output raises.
C8_EmptyCListNeverFails ==
    (sized /\ c_list = <<>>) => (pc # "raised" /\ unpacked.st # "raised")

\* C9: after a call of compute_Bemd, returned or raised, the emd logger's level
\* is the level it had before the call.
C9_LoggerLevelRestored ==
    (est.fn = "compute_Bemd" /\ est.calls >= 1) => emdlevel = est.before

\* C10: once a compute_Bemd or compute_Bconf call has raised, the run returns
\* no output.
C10_EstimatorErrorAbortsRun ==
    est_raised => pc \notin {"done", "unpacked"}

\* C10 holds when no pair is repeated.
C10_AbortsIfNoRepeats == NoRepeats => C10_EstimatorErrorAbortsRun

\* C11: the chunk size handed to pool.imap is ceil(N / (workers * 6)), N the
\* number of data models (not of pairs): the least integer whose product with
\* workers * 6 reaches N; N=13 with 4 workers gives 1, N=100 with 4 gives 5.
C11_ChunkSizeFormula ==
    (path = "pool" /\ pc = "loop") =>
        LET n == Len(data_models)
            d == ncores * 6
        IN  /\ ncores >= 2 /\ n >= 1
            /\ chunksize * d >= n
            /\ (chunksize - 1) * d < n
            /\ (n = 13 /\ ncores = 4) => chunksize = 1
            /\ (n = 100 /\ ncores = 4) => chunksize = 5

C11_Witness ==
    /\ path = "pool" /\ pc = "loop"
    /\ Len(data_models) = 100 /\ Len(c_list) = 2
    /\ ncores = 4 /\ chunksize = 5

\* C12: the worker count is the least of the physical core count, the number of
\* pairs N*|c_list| and config.mp.max_cores; the pool path is taken exactly when
\* it exceeds 1; otherwise no pool exists, compute_Bemd runs in the controller,
\* every stored value is the one computed for its key and the returned lists
\* are those of the sequential loop.
C12_WorkerCountPolicy ==
    (sized /\ pc # "start") =>
        LET t == Len(data_models) * Len(c_list)
        IN  /\ ncores <= cores /\ ncores <= t /\ ncores <= max_cores
            /\ ncores \in {cores, t, max_cores}
            /\ (path = "pool") = (ncores > 1)
            /\ (path = "seq") = (ncores <= 1)
            /\ path = "seq" =>
                  /\ workers = <<>> /\ tasks = <<>> /\ feeder = "idle"
                  /\ \A i \in DOMAIN Bemd_results :
                        Bemd_results[i][2] = BemdOf(Bemd_results[i][1])
                  /\ \A p \in DOMAIN bemd_calls :
                        IF HasKey(Bemd_results, p) THEN bemd_calls[p] = 1
                        ELSE bemd_calls[p] = 0 \/ (bemd_calls[p] = 1 /\ est_raised)
                  /\ pc = "done" => output = SeqOutput(data_models, c_list)

C12_Witness ==
    /\ sized /\ pc = "done" /\ path = "seq"
    /\ cores >= 2 /\ ncores = 1
    /\ Len(output.Bemd) >= 2

\* C13: a compute_Bemd call that returns gives the number of pairs (a, b), a in
\* the R_A samples and b in the R_B samples, with a < b (a tie is not less),
\* over the number of all pairs; with non-empty samples it lies in [0, 1].
C13_BemdIsFractionLess ==
    (est.fn = "compute_Bemd" /\ est.calls >= 1 /\ ~est.raised) =>
        LET RA      == est.a.v
            RB      == est.b.v
            less    == SumSeq([i \in DOMAIN RA |->
                                 Cardinality({j \in DOMAIN RB : RA[i] < RB[j]})])
            notless == SumSeq([i \in DOMAIN RA |->
                                 Cardinality({j \in DOMAIN RB : RA[i] >= RB[j]})])
        IN  /\ est.value = << less, Len(RA) * Len(RB) >>
            /\ less + notless = Len(RA) * Len(RB)
            /\ (RA # <<>> /\ RB # <<>>) =>
                  /\ est.value[2] > 0
                  /\ 0 <= est.value[1] /\ est.value[1] <= est.value[2]

C13_Witness ==
    /\ est.fn = "compute_Bemd" /\ est.calls >= 1 /\ ~est.raised
    /\ est.value[1] > 0 /\ est.value[1] < est.value[2]
    /\ \E i \in DOMAIN est.a.v, j \in DOMAIN est.b.v : est.a.v[i] = est.b.v[j]

\* C14: each compute_Bconf call asks the data model for one dataset; a call that
\* returns gives TRUE iff the mean of riskA on that dataset is below the mean of
\* riskB on it (equal means: FALSE); a second call on a data model that gives
\* the same dataset has the same outcome.
C14_BconfIsMeanLess ==
    (est.fn = "compute_Bconf" /\ est.calls >= 1) =>
        /\ est.draws = est.calls
        /\ est.raised = ~est.dataOk
        /\ ~est.raised =>
              /\ Len(est.a) = Len(est.b)
              /\ est.value = << SumSeq(est.a) < SumSeq(est.b) >>
              /\ SumSeq(est.a) = SumSeq(est.b) => est.value = << FALSE >>
        /\ est.calls = 2 => est.first = << est.raised, est.value >>

C14_Witness ==
    /\ est.fn = "compute_Bconf" /\ est.calls = 2 /\ ~est.raised
    /\ est.a # est.b /\ SumSeq(est.a) = SumSeq(est.b)
    /\ est.value = << FALSE >>

\* C15: a run that returns gives the Bemd list with one value per place of the
\* nested iteration, in its order (N*|c_list| values, the one computed for the
\* pair at that place), and the Bconf list with one value per data model, in
\* order (N values); both are plain lists of values.
C15_OutputLayout ==
    pc = "done" =>
        LET E == Enumeration(data_models, c_list)
        IN  /\ Len(output.Bemd) = Len(data_models) * Len(c_list)
            /\ Len(output.Bconf) = Len(data_models)
            /\ output.Bemd = [k \in DOMAIN E |-> BemdOf(E[k])]
            /\ output.Bconf = [i \in DOMAIN data_models |-> BconfOf(data_models[i])]

\* C15 holds when c_list is not empty and no pair is repeated.
C15_LayoutIfNoRepeats == (NoRepeats /\ c_list # <<>>) => C15_OutputLayout

\* the keys of {c: ... for c in q}: the values of q in order of first occurrence
RECURSIVE DictKeys(_)
DictKeys(q) ==
    IF q = <<>> THEN <<>>
    ELSE LET r == DictKeys(SubSeq(q, 1, Len(q) - 1))
         IN  IF \E i \in DOMAIN r : r[i] = Last(q) THEN r ELSE Append(r, Last(q))

\* C16: unpack_results on the output of a run returns a mapping whose keys are
\* the values of c_list, in order, and whose array for c has one row per data
\* model, in order: row j is (Bemd of (model j, c), Bconf of model j).
C16_UnpackedLayout ==
    pc = "unpacked" =>
        /\ unpacked.st = "ok"
        /\ [i \in DOMAIN unpacked.result |-> unpacked.result[i][1]] = DictKeys(c_list)
        /\ \A i \in DOMAIN unpacked.result :
              unpacked.result[i][2] =
                 [j \in DOMAIN data_models |->
                    << Get(Bemd_results, << data_models[j], unpacked.result[i][1] >>),
                       Get(Bconf_results, data_models[j]) >>]

\* C16 holds when c_list is not empty and no pair is repeated.
C16_LayoutIfNoRepeats == (NoRepeats /\ c_list # <<>>) => C16_UnpackedLayout

\* C17: compute_Bconf is never evaluated twice on a data model, and when the
\* run returns it has been evaluated once on every data model of the
\* distribution, whose value is in Bconf_results and in no other entry.
C17_BconfOncePerModel ==
    /\ \A m \in Models : bconf_calls[m] <= 1
    /\ pc = "done" =>
          /\ \A m \in Range(data_models) :
                bconf_calls[m] = 1 /\ HasKey(Bconf_results, m)
          /\ Len(Bconf_results) = Cardinality(Range(data_models))

\* C17 holds when c_list is not empty.
C17_OncePerModelIfPairs == c_list # <<>> => C17_BconfOncePerModel

\* compute_Bconf is evaluated by the controller only, in its "if data_model not
\* in Bconf_results" statement.
C17_ByControllerOnly ==
    [][bconf_calls' # bconf_calls => (pc = "bconf" /\ pc' \in {"loop", "raised"})]_vars

\* C19: at any time of a run the two generators have yielded the same tuples,
\* as far as both have got.
C19_GeneratorsAgree ==
    \A i \in 1..Min2(Len(gen1.out), Len(gen2.out)) : gen1.out[i] = gen2.out[i]

\* C19 holds when no pair is repeated.
C19_AgreeIfNoRepeats == NoRepeats => C19_GeneratorsAgree

\* C20: during a run the assertion of model_c_gen fails in neither generator.
C20_AssertionNeverFails ==
    /\ gen1.st # "raised"
    /\ gen2.st # "raised"
    /\ exc # "AssertionError"

\* C20 holds when no pair is repeated.
C20_NeverFailsIfNoRepeats == NoRepeats => C20_AssertionNeverFails

\* C18 as stated: generate(N) adds a distribution whose count is N and whose
\* other fields are the receiver's, and len() of every CalibrationDist is its N.
C18_GenerateAndLen ==
    /\ dist.src # 0 =>
          /\ Last(dist.objs).N = dist.n
          /\ Last(dist.objs).params = dist.objs[dist.src].params
    /\ \A i \in DOMAIN dist.objs :
          len(dist.objs[i]).ok /\ len(dist.objs[i]).v = dist.objs[i].N

\* C18 amended: generate(N) adds a distribution whose count is N and whose
\* other fields are the receiver's, and changes no existing distribution;
\* len() of a CalibrationDist is its N when N is an integer, and raises when
\* N is np.inf.
C18_GenerateCopiesLenOfFinite ==
    /\ [](/\ dist.src # 0 =>
             /\ Last(dist.objs).N = dist.n
             /\ Last(dist.objs).params = dist.objs[dist.src].params
          /\ \A i \in DOMAIN dist.objs :
                IF dist.objs[i].N \in 0..MaxCount
                THEN len(dist.objs[i]).ok /\ len(dist.objs[i]).v = dist.objs[i].N
                ELSE ~len(dist.objs[i]).ok)
    /\ [][/\ Len(dist'.objs) = Len(dist.objs) + 1
          /\ \A i \in DOMAIN dist.objs :
                /\ dist'.objs[i] = dist.objs[i]
                /\ len(dist'.objs[i]) = len(dist.objs[i])]_vars

C18_Witness ==
    /\ pc = "dist" /\ dist.src = 1 /\ Len(dist.objs) = 3
    /\ dist.objs[1].N = Inf /\ dist.objs[2].N = 2 /\ dist.objs[3].N = 0
    /\ dist.objs[3].params = dist.objs[1].params

\* C24: compute_Bemd is never evaluated twice on a pair, and when the run
\* returns it has been evaluated once on every pair of the nested iteration.
C24_BemdOncePerPair ==
    /\ \A p \in Models \X Cs : bemd_calls[p] <= 1
    /\ pc = "done" =>
          \A p \in Range(Enumeration(data_models, c_list)) : bemd_calls[p] = 1

\* C24 holds when no pair is repeated.
C24_OncePerPairIfNoRepeats == NoRepeats => C24_BemdOncePerPair

\* C25: whenever the pool branch is entered there are at least 2 pairs and 1
\* data model, the chunk size handed to pool.imap is at least 1, and imap does
\* not refuse it.
C25_ChunkSizePositive ==
    (path = "pool" /\ pc \notin {"start", "open"}) =>
        /\ total >= 2 /\ N >= 1
        /\ chunksize >= 1
        /\ exc # "ValueError"

C25_Witness ==
    /\ path = "pool" /\ pc = "loop"
    /\ N = 1 /\ total = 2 /\ ncores = 2 /\ cores > 2
    /\ chunksize = 1

\* The maps change only in steps of the controller: Bemd_results when it has
\* taken one result from the stream, Bconf_results in the statement after it.
C21_MutatedByControllerOnly ==
    [][/\ Bemd_results' # Bemd_results =>
             (pc = "loop" /\ pc' = "bconf" /\ ticks' = ticks + 1)
       /\ Bconf_results' # Bconf_results =>
             (pc = "bconf" /\ pc' = "loop")]_vars

\* C21: the maps change only in steps of the controller, after it has taken a
\* result, and nothing else touches them while the controller is updating them:
\* the pool's input feeding (the generator run by the task-handler thread)
\* makes no test on the maps between the controller's update of Bemd_results
\* and its update of Bconf_results for the same result.
C21_NoConcurrentAccess ==
    [][/\ Bemd_results' # Bemd_results =>
             (pc = "loop" /\ pc' = "bconf" /\ ticks' = ticks + 1)
       /\ Bconf_results' # Bconf_results =>
             (pc = "bconf" /\ pc' = "loop")
       /\ (path = "pool" /\ gen1' # gen1) => pc # "bconf"]_vars

\* C21 holds in the sequential path, where both generators run in the controller.
C21_NoConcurrentAccessSeq ==
    [][(path = "seq" /\ (gen1' # gen1 \/ gen2' # gen2)) => pc \in {"open", "loop"}]_vars

\* the value a dict built by assigning vals[k] to keys[k] in turn holds for
\* keys[k]: that of the last place the key occurs at
LastAssigned(keys, vals, d) ==
    \A k \in DOMAIN keys :
        (\A l \in (k + 1)..Len(keys) : keys[l] # keys[k]) => Get(d, keys[k]) = vals[k]

\* C23 as stated: unpack_results of a task with other inputs than the task
\* that produced the lists raises nothing and gives the stored values, in
\* order, to the keys of its own nested iteration.
C23_MismatchUndetected ==
    pc = "unpacked" =>
        LET dm == taskinputs.data_models
            E  == Enumeration(dm, taskinputs.c_list)
        IN  /\ unpacked.st = "ok"
            /\ Keys(unpacked.Bemd_dict) = Range(E)
            /\ LastAssigned(E, output.Bemd, unpacked.Bemd_dict)
            /\ LastAssigned(dm, output.Bconf, unpacked.Bconf_dict)

\* C23 amended: unpack_results of a task with other inputs raises nothing
\* exactly when the lists hold at least as many values as its own inputs ask
\* for (N' Bconf values and N'*|c_list'| Bemd values); then it gives the stored
\* values, in order, to the keys of its own nested iteration and returns one
\* array per value of its c_list; when the lists are too short next() raises.
C23_MismatchUndetectedUnlessShort ==
    pc = "unpacked" =>
        LET dm     == taskinputs.data_models
            cl     == taskinputs.c_list
            E      == Enumeration(dm, cl)
            enough == Len(dm) <= Len(output.Bconf) /\ Len(E) <= Len(output.Bemd)
        IN  /\ << dm, cl >> # << data_models, c_list >>
            /\ (unpacked.st = "ok") = enough
            /\ enough =>
                  /\ Keys(unpacked.Bemd_dict) = Range(E)
                  /\ Keys(unpacked.Bconf_dict) = Range(dm)
                  /\ LastAssigned(E, output.Bemd, unpacked.Bemd_dict)
                  /\ LastAssigned(dm, output.Bconf, unpacked.Bconf_dict)
                  /\ [i \in DOMAIN unpacked.result |-> unpacked.result[i][1]]
                        = DictKeys(cl)

C23_Witness ==
    /\ pc = "unpacked" /\ unpacked.st = "ok"
    /\ Len(taskinputs.data_models) # Len(data_models)
    /\ Len(taskinputs.c_list) # Len(c_list)
    /\ Len(unpacked.Bemd_dict) >= 2
    /\ \E i \in DOMAIN unpacked.Bemd_dict :
          unpacked.Bemd_dict[i][2] # BemdOf(unpacked.Bemd_dict[i][1])

\* every pair of the nested iteration has a value in Bemd_results
AllPairsStored ==
    \A p \in Range(Enumeration(data_models, c_list)) : HasKey(Bemd_results, p)

\* C22: under fair scheduling, unless an estimator call raises, the run
\* eventually returns with a Bemd value stored for every pair of the nested
\* iteration.
C22_RunTerminatesWithAllPairs ==
    <>(est_raised \/ (pc = "done" /\ AllPairsStored))

\* C22 holds for a sized distribution when no pair is repeated.
C22_TerminatesIfSizedNoRepeats ==
    (sized /\ NoRepeats) => C22_RunTerminatesWithAllPairs

\* Without the fairness of the workers a run of the pool path need not end: a
\* worker call that never returns leaves the controller waiting for its result.
C22_WaitsForWorker ==
    [](path = "pool" /\ pc = "loop" /\ cbuf = <<>> /\ nextidx < Len(tasks)
         /\ tasks[nextidx + 1].st = "running"
         /\ GenNext(gen2, data_models, c_list, Keys(Bemd_results),
                    Keys(Bconf_results)).st = "yield"
       => ~ENABLED PoolNext)

====
